---- MODULE Spec2Model ----
(***************************************************************************)
(* CorTeX task store (src/src/backend.rs): the status state machine of the *)
(* tasks table, the claim statement of fetch_tasks, the completion         *)
(* transaction of mark_done, the three statements of mark_rerun and the    *)
(* limbo sweep of clear_limbo_tasks.                                       *)
(*                                                                         *)
(* A statement sent with connection.execute / stmt.query runs in its own   *)
(* autocommit transaction and is one atomic step.  A block between         *)
(* connection.transaction() and trans.finish() becomes visible as a whole  *)
(* (set_commit) or not at all (the Transaction is dropped on an early      *)
(* return or a panic, which rolls it back).                                *)
(*                                                                         *)
(* Option<T> is modelled as a set: None is {} and Some(x) is {x}.          *)
(***************************************************************************)
EXTENDS Integers, Sequences, FiniteSets, Bags, TLC

(***************************************************************************)
(* Bounds of the model.                                                    *)
(***************************************************************************)
\* fetch_tasks draws `mark: u16`; the model draws it from 0..MaxClaimRng.
MaxClaimRng == 1
\* mark_rerun draws `mark_rng: u16`; the model draws it from 0..MaxRerunRng.
MaxRerunRng == 6
\* The `limit` argument of fetch_tasks ranges over 0..MaxLimit.
MaxLimit == 2
\* mark_done is no longer called once the logs table holds more than
\* MaxLogs rows.
MaxLogs == 1
\* Next to reruns, workers report no further task once the logs table holds
\* more than MaxRerunLogs rows.
MaxRerunLogs == 0
\* A mark_done batch holds at most MaxBatchSize reports and messages together.
MaxBatchSize == 3

\* The serial behind tasks.taskid hands out at most this many values.
MaxTaskId == 3

\* The longest vector of tasks handed to mark_imported.
MaxImport == 1

\* The serial behind corpora.corpusid hands out at most this many values.
MaxCorpusId == 1

\* The ventilator receives at most this many requests.
MaxRequests == 3

\* The sink receives at most this many messages.
MaxSinkMessages == 2

\* The logs table holds at most this many rows while a rerun races the
\* workers.
MaxRaceLogs == 2

(***************************************************************************)
(* Status codes.  src/data.rs (TaskStatus) is not among the sources: the   *)
(* raw value of TODO and the mapping of from_key are those of the          *)
(* specification's status table; the four completed codes are also the     *)
(* literals of the partial indexes on tasks (lines 86-89).                 *)
(***************************************************************************)
TaskStatus_TODO == 0
TaskStatus_NoProblem == -1
TaskStatus_Warning == -2
TaskStatus_Error == -3
TaskStatus_Fatal == -4
\* The literal of the third statement of mark_rerun.
RequeuedStatus == -5

TerminalCodes ==
  {TaskStatus_NoProblem, TaskStatus_Warning, TaskStatus_Error, TaskStatus_Fatal}

\* TaskStatus::from_key(key).raw() for the four severity classes.
TaskStatus_from_key_raw(key) ==
  CASE key = "no_problem" -> TaskStatus_NoProblem
    [] key = "warning" -> TaskStatus_Warning
    [] key = "error" -> TaskStatus_Error
    [] OTHER -> TaskStatus_Fatal

\* TaskStatus::from_raw(raw).to_key(): the bucket a status is counted in.
TaskStatus_key(raw) ==
  CASE raw = TaskStatus_NoProblem -> "no_problem"
    [] raw = TaskStatus_Warning -> "warning"
    [] raw = TaskStatus_Error -> "error"
    [] raw = TaskStatus_Fatal -> "fatal"
    [] raw = TaskStatus_TODO -> "todo"
    [] raw = RequeuedStatus -> "invalid"
    [] raw > TaskStatus_TODO -> "queued"
    [] OTHER -> "blocked"

\* TaskStatus::keys()
TaskStatus_keys ==
  {"no_problem", "warning", "error", "fatal", "todo", "invalid", "blocked", "queued"}

(***************************************************************************)
(* Option                                                                  *)
(***************************************************************************)
None == {}
Some(x) == {x}
Option(S) == {None} \cup {Some(x) : x \in S}
unwrap(o) == CHOOSE x \in o : TRUE

(***************************************************************************)
(* The store.                                                              *)
(*   tasks : taskid -> row of the tasks table (entry, serviceid, corpusid, *)
(*           status); DOMAIN tasks are the rows that exist                 *)
(*   logs  : the logs table as a bag of rows (taskid, severity, category,  *)
(*           what); messageid is a serial key no statement reads and       *)
(*           details is free text no statement selects on                  *)
(*   taskid_seq : the last value of the serial behind tasks.taskid         *)
(*   corpora : the corpora table: seq is the last value of the serial      *)
(*           behind corpusid, rows maps corpusid to (path, name)           *)
(*   rerun : the position of the mark_rerun call in progress, if any       *)
(*   registration : the position of the register_service call in progress, *)
(*           if any                                                        *)
(*   last  : the operation that ran last and what it returned to its       *)
(*           caller: res is "Ok", "Err", "Panic" or, between the           *)
(*           statements of mark_rerun, "Running"; ret the rows returned    *)
(* The dispatch layer.                                                     *)
(*   ventilator : the position of Ventilator::start, its request_id and    *)
(*           the messages its socket received and sent                     *)
(*   sink : the position of Sink::start and the messages its socket        *)
(*           received                                                      *)
(* History, written by the steps of each specification and read by no      *)
(* operation:                                                              *)
(*   arg    : the arguments of the call under study                        *)
(*   handed : the ids fetch_tasks returned since the last                  *)
(*            clear_limbo_tasks or mark_rerun statement                    *)
(***************************************************************************)
VARIABLES tasks, logs, taskid_seq, corpora, rerun, registration, last, ventilator,
          sink, arg, handed

vars == <<tasks, logs, taskid_seq, corpora, rerun, registration, last, ventilator,
          sink, arg, handed>>

\* Services 1 and 2 are the built-in 'init' and 'import'; 3 and 4 are
\* registered services, 4 with no task rows.
ServiceIds == {3, 4}
CorpusIds == {1, 2}

\* The tasks table after the import of two corpora and the activation of
\* service 3 on both: every task is queued.
InitTasks ==
  (1 :> [entry |-> "a", serviceid |-> 3, corpusid |-> 1, status |-> TaskStatus_TODO])
  @@ (2 :> [entry |-> "b", serviceid |-> 3, corpusid |-> 1, status |-> TaskStatus_TODO])
  @@ (3 :> [entry |-> "a", serviceid |-> 3, corpusid |-> 2, status |-> TaskStatus_TODO])

TaskIds == DOMAIN InitTasks

Severities == {"info", "status", "error"}
Categories == {"cat"}
Whats == {"what"}
Messages == [severity : Severities, category : Categories, what : Whats]

NoCall == [pc |-> "idle", mark |-> 0, corpusid |-> 0, serviceid |-> 0]

Outcome(op, res, ret) == [op |-> op, res |-> res, ret |-> ret]

\* The services table: setup_task_tables inserts 'init' and then 'import'
\* into the empty table, so their serial ids are 1 and 2.
Services == (1 :> "init") @@ (2 :> "import") @@ (3 :> "tex_to_html") @@ (4 :> "spare")

service_named(name) == CHOOSE id \in DOMAIN Services : Services[id] = name

Table(seq, rows) == [seq |-> seq, rows |-> rows]

\* The corpora table with the two corpora of InitTasks.
InitCorpora ==
  Table(Cardinality(CorpusIds),
        (1 :> [path |-> "c1", name |-> "c1"]) @@ (2 :> [path |-> "c2", name |-> "c2"]))

\* No register_service call is in progress.
NoRegistration == [pc |-> "idle", serviceid |-> 0, corpusid |-> 0, entries |-> <<>>]

\* Ventilator::start has not been called.
NotStarted == [pc |-> "new", request_id |-> 0, received |-> <<>>, sent |-> <<>>]

\* No Sink::start has run.
NotReceiving == [pc |-> "new", received |-> <<>>]

\* The tables after the import, with no call in progress and the dispatch
\* layer not started.
InitStore ==
  /\ tasks = InitTasks
  /\ logs = EmptyBag
  /\ taskid_seq = Cardinality(DOMAIN InitTasks)
  /\ corpora = InitCorpora
  /\ rerun = NoCall
  /\ registration = NoRegistration
  /\ last = Outcome("init", "Ok", {})
  /\ ventilator = NotStarted
  /\ sink = NotReceiving

\* The tables as setup_task_tables leaves them: tasks and corpora are
\* empty and their serials have handed out nothing.
FreshStore ==
  /\ tasks = <<>>
  /\ logs = EmptyBag
  /\ taskid_seq = 0
  /\ corpora = Table(0, <<>>)
  /\ rerun = NoCall
  /\ registration = NoRegistration
  /\ last = Outcome("init", "Ok", {})
  /\ ventilator = NotStarted
  /\ sink = NotReceiving

Min(a, b) == IF a < b THEN a ELSE b

set_status(t, ids, status) ==
  [id \in DOMAIN t |-> IF id \in ids THEN [t[id] EXCEPT !.status = status] ELSE t[id]]

(***************************************************************************)
(* fetch_tasks (lines 298-318)                                             *)
(***************************************************************************)
\* `let mark: u16 = rng.gen();` and the cast `mark as i32` of the query.
claim_marks == 0..MaxClaimRng

\* SELECT * FROM tasks WHERE serviceid = $2 and status = $3
fetch_candidates(t, serviceid) ==
  {id \in DOMAIN t : t[id].serviceid = serviceid /\ t[id].status = TaskStatus_TODO}

\* A claim statement without its LIMIT.
fetch_selections_unlimited(cands, limit) == {cands}

\* LIMIT $4 FOR UPDATE: any `limit` of the candidate rows, all of them when
\* there are fewer.
fetch_selections(cands, limit) ==
  {c \in SUBSET cands : Cardinality(c) = Min(limit, Cardinality(cands))}

\* RETURNING t.taskid,t.entry,t.serviceid,t.corpusid,t.status / Task::from_row
Task_from_row(id, row) ==
  [id |-> id, entry |-> row.entry, serviceid |-> row.serviceid,
   corpusid |-> row.corpusid, status |-> row.status]

\* UPDATE tasks t SET status = $1 FROM (...) subt WHERE t.taskid = subt.taskid
fetch_update(t, chosen, mark) == set_status(t, chosen, mark)

\* What `try!` hands back when the prepare or the query fails.
fetch_failed == Outcome("fetch_tasks", "Err", {})

\* service_id is service.id; fail: the prepare or the query returns Err.
fetch_tasks(service_id, limit, mark, fail) ==
  /\ UNCHANGED <<logs, taskid_seq, corpora, rerun, registration, ventilator, sink>>
  /\ IF service_id = None THEN
       /\ last' = Outcome("fetch_tasks", "Ok", {})
       /\ UNCHANGED tasks
     ELSE IF fail THEN
       /\ last' = fetch_failed
       /\ UNCHANGED tasks
     ELSE
       \E chosen \in fetch_selections(fetch_candidates(tasks, unwrap(service_id)), limit) :
         /\ tasks' = fetch_update(tasks, chosen, mark)
         /\ last' = Outcome("fetch_tasks", "Ok",
                            {Task_from_row(id, tasks'[id]) : id \in chosen})

(***************************************************************************)
(* clear_limbo_tasks (lines 322-325)                                       *)
(***************************************************************************)
\* A sweep that compares with >= instead of >.
limbo_rows_from_done(t) == {id \in DOMAIN t : t[id].status >= TaskStatus_NoProblem}

\* WHERE status > $2, with $2 = TaskStatus::NoProblem.raw()
limbo_rows(t) == {id \in DOMAIN t : t[id].status > TaskStatus_NoProblem}

clear_limbo_tasks(fail) ==
  /\ tasks' = IF fail THEN tasks
              ELSE set_status(tasks, limbo_rows(tasks), TaskStatus_TODO)
  /\ last' = Outcome("clear_limbo_tasks", IF fail THEN "Err" ELSE "Ok", {})
  /\ UNCHANGED <<logs, taskid_seq, corpora, rerun, registration, ventilator, sink>>

(***************************************************************************)
(* mark_rerun (lines 190-246): three statements, each sent with            *)
(* connection.execute outside any transaction; `try!` returns at the first *)
(* that fails.                                                             *)
(***************************************************************************)
\* `let mark_rng: u16 = rng.gen();`
rerun_rngs == 0..MaxRerunRng

\* `let mark : i32 = -1 * (mark_rng as i32);`
rerun_mark(mark_rng) == -1 * mark_rng

\* where corpusid=$2 and serviceid=$3
pair_rows(t, corpusid, serviceid) ==
  {id \in DOMAIN t : t[id].corpusid = corpusid /\ t[id].serviceid = serviceid}

Selector(severity, category, what) ==
  [severity |-> severity, category |-> category, what |-> what]

\* The rows the first statement updates, by the match on severity, category
\* and what (lines 198-231).
rerun_selected(t, lg, corpusid, serviceid, sel) ==
  LET pair == pair_rows(t, corpusid, serviceid) IN
  IF sel.severity = None THEN pair
  ELSE IF sel.category = None THEN
    {id \in pair : t[id].status = TaskStatus_from_key_raw(unwrap(sel.severity))}
  ELSE IF sel.what = None THEN
    {id \in pair : \E r \in DOMAIN lg :
        /\ r.taskid = id
        /\ r.severity = unwrap(sel.severity)
        /\ r.category = unwrap(sel.category)}
  ELSE
    {id \in pair : \E r \in DOMAIN lg :
        /\ r.taskid = id
        /\ r.severity = unwrap(sel.severity)
        /\ r.category = unwrap(sel.category)
        /\ r.what = unwrap(sel.what)}

\* Statements two and three without their pair: status=$1 alone.
marked_rows_anywhere(t, mark, corpusid, serviceid) ==
  {id \in DOMAIN t : t[id].status = mark}

\* tasks.status=$1 and tasks.corpusid=$2 and tasks.serviceid=$3
marked_rows(t, mark, corpusid, serviceid) ==
  {id \in pair_rows(t, corpusid, serviceid) : t[id].status = mark}

\* A second statement that deletes nothing.
delete_logs_none(lg, ids) == lg

\* DELETE from logs USING tasks WHERE logs.taskid=tasks.taskid and ...
delete_logs(lg, ids) ==
  LET keep == {r \in DOMAIN lg : r.taskid \notin ids} IN [r \in keep |-> lg[r]]

\* Where the call stands after a statement: `try!` returns the Err of a
\* failed statement at once, and the statements after it never run.
rerun_after(fail, next) == IF fail THEN NoCall ELSE next

\* First statement: tag the selected rows with the mark.  The arguments of
\* the statement unwrap corpus.id and service.id: a corpus or a service
\* without an id panics before anything is sent.
mark_rerun_tag(corpus_id, service_id, sel, mark_rng, fail) ==
  LET mark == rerun_mark(mark_rng) IN
  /\ rerun.pc = "idle"
  /\ UNCHANGED <<logs, taskid_seq, corpora, registration, ventilator, sink>>
  /\ IF corpus_id = None \/ service_id = None
     THEN /\ last' = Outcome("mark_rerun", "Panic", {})
          /\ UNCHANGED <<tasks, rerun>>
     ELSE LET corpusid == unwrap(corpus_id)
              serviceid == unwrap(service_id)
          IN /\ tasks' = IF fail THEN tasks
                         ELSE set_status(tasks,
                                rerun_selected(tasks, logs, corpusid, serviceid, sel),
                                mark)
             /\ rerun' = rerun_after(fail, [pc |-> "delete", mark |-> mark,
                                            corpusid |-> corpusid,
                                            serviceid |-> serviceid])
             /\ last' = Outcome("mark_rerun", IF fail THEN "Err" ELSE "Running", {})

\* Second statement: delete the logs of the rows that carry the mark.
mark_rerun_delete(fail) ==
  /\ rerun.pc = "delete"
  /\ logs' = IF fail THEN logs
             ELSE delete_logs(logs,
                    marked_rows(tasks, rerun.mark, rerun.corpusid, rerun.serviceid))
  /\ rerun' = rerun_after(fail, [rerun EXCEPT !.pc = "requeue"])
  /\ last' = Outcome("mark_rerun", IF fail THEN "Err" ELSE "Running", {})
  /\ UNCHANGED <<tasks, taskid_seq, corpora, registration, ventilator, sink>>

\* Third statement: UPDATE tasks set status=-5 where status=$1 and ...
mark_rerun_requeue(fail) ==
  /\ rerun.pc = "requeue"
  /\ tasks' = IF fail THEN tasks
              ELSE set_status(tasks,
                     marked_rows(tasks, rerun.mark, rerun.corpusid, rerun.serviceid),
                     RequeuedStatus)
  /\ rerun' = NoCall
  /\ last' = Outcome("mark_rerun", IF fail THEN "Err" ELSE "Ok", {})
  /\ UNCHANGED <<logs, taskid_seq, corpora, registration, ventilator, sink>>

(***************************************************************************)
(* mark_done (lines 164-186): one transaction over the whole batch.        *)
(***************************************************************************)
Report(task_id, status, messages) ==
  [task_id |-> task_id, status |-> status, messages |-> messages]

\* A filter that forgets the 'status' severity.
skipped_info_only(message) == message.severity = "info"

\* `if (message.severity == "info") || (message.severity == "status") { continue; }`
skipped(message) == message.severity = "info" \/ message.severity = "status"

\* The row of insert_log_message.query(&[&taskid, &message.severity, ...]).
log_row(taskid, message) ==
  [taskid |-> taskid, severity |-> message.severity,
   category |-> message.category, what |-> message.what]

RECURSIVE log_inserts(_, _)
\* The inserts of the inner loop, one per message that is not skipped.
log_inserts(taskid, messages) ==
  IF messages = <<>> THEN <<>>
  ELSE (IF skipped(Head(messages))
          THEN <<>>
          ELSE <<[op |-> "insert", row |-> log_row(taskid, Head(messages))]>>)
       \o log_inserts(taskid, Tail(messages))

RECURSIVE statements(_)
\* What the outer loop runs, in program order: `report.task.id.unwrap()`
\* panics on a task without an id, and nothing after it is reached.
statements(rs) ==
  IF rs = <<>> THEN <<>>
  ELSE LET r == Head(rs) IN
    IF r.task_id = None THEN <<[op |-> "unwrap_none"]>>
    ELSE <<[op |-> "update", taskid |-> unwrap(r.task_id), status |-> r.status]>>
         \o log_inserts(unwrap(r.task_id), r.messages)
         \o statements(Tail(rs))

\* One statement on the transaction's view w of the tables.
execute(w, stmt) ==
  CASE stmt.op = "update" ->
         [w EXCEPT !.tasks = set_status(w.tasks, {stmt.taskid}, stmt.status)]
    [] stmt.op = "insert" ->
         [w EXCEPT !.logs = w.logs (+) SetToBag({stmt.row})]
    [] OTHER -> w

RECURSIVE run(_, _)
run(w, stmts) == IF stmts = <<>> THEN w ELSE run(execute(w, Head(stmts)), Tail(stmts))

first_unwrap_none(stmts) ==
  LET at == {i \in 1..Len(stmts) : stmts[i].op = "unwrap_none"} IN
  IF at = {} THEN Len(stmts) + 1 ELSE CHOOSE i \in at : \A j \in at : i <= j

\* The store calls of mark_done are numbered in program order: 1 is
\* connection.transaction(), 2 is trans.prepare, 2+i is the i-th statement of
\* the loop and the one after the last is trans.finish().  `fail` is the call
\* that returns Err (0: none does).
fail_points(rs) == 0..(Len(statements(rs)) + 3)

\* How the call ends: `try!` returns the Err of transaction() and finish(),
\* `unwrap()` panics on that of prepare, execute and query.
mark_done_result(rs, fail) ==
  LET stmts == statements(rs)
      p == first_unwrap_none(stmts)
  IN IF fail = 1 THEN "Err"
     ELSE IF fail = 2 THEN "Panic"
     ELSE IF fail # 0 /\ fail - 2 <= Len(stmts) /\ fail - 2 <= p THEN "Panic"
     ELSE IF p <= Len(stmts) THEN "Panic"
     ELSE IF fail = Len(stmts) + 3 THEN "Err"
     ELSE "Ok"

\* The statements that ran before the call ended.
mark_done_executed(rs, fail) ==
  LET stmts == statements(rs)
      p == first_unwrap_none(stmts)
      f == IF fail = 0 THEN Len(stmts) + 1
           ELSE IF fail <= 2 THEN 1
           ELSE Min(fail - 2, Len(stmts) + 1)
  IN SubSeq(stmts, 1, Min(f, p) - 1)

\* A mark_done without the transaction: every statement that ran stays.
trans_finish_autocommit(res, work, store) == work

\* trans.set_commit(); trans.finish(): the transaction's view replaces the
\* tables; on every other way out the Transaction is dropped and rolls back.
trans_finish(res, work, store) == IF res = "Ok" THEN work ELSE store

mark_done(rs, fail) ==
  LET store == [tasks |-> tasks, logs |-> logs]
      res == mark_done_result(rs, fail)
      after == trans_finish(res, run(store, mark_done_executed(rs, fail)), store)
  IN /\ tasks' = after.tasks
     /\ logs' = after.logs
     /\ last' = Outcome("mark_done", res, {})
     /\ UNCHANGED <<taskid_seq, corpora, rerun, registration, ventilator, sink>>

(***************************************************************************)
(* Transactions of inserts into tasks: mark_imported (lines 152-161) and   *)
(* the last part of register_service (lines 341-349).                      *)
(***************************************************************************)
\* INSERT INTO tasks (entry,serviceid,corpusid,status) VALUES ($1,$2,$3,$4),
\* once per row: taskid takes the next values of the serial.
insert_rows(t, seq, rows) ==
  [id \in DOMAIN t \cup ((seq + 1)..(seq + Len(rows))) |->
     IF id \in DOMAIN t THEN t[id] ELSE rows[id - seq]]

\* The store calls of the transaction in program order: 1 is
\* connection.transaction(), 1+i the i-th INSERT, the one after the last
\* trans.finish().  `fail` is the call that returns Err (0: none does).
insert_fail_points(rows) == 0..(Len(rows) + 2)

\* `try!` returns the Err of transaction() and finish(), `unwrap()` panics
\* on that of an INSERT.
inserts_result(rows, fail) ==
  IF fail = 0 THEN "Ok"
  ELSE IF fail = 1 \/ fail = Len(rows) + 2 THEN "Err"
  ELSE "Panic"

\* The INSERTs that ran before the call ended.
inserts_executed(rows, fail) ==
  IF fail = 0 \/ fail = Len(rows) + 2 THEN Len(rows)
  ELSE IF fail = 1 THEN 0
  ELSE fail - 2

\* The tasks table after the transaction: committed as a whole or not at
\* all.
inserts_commit(t, seq, rows, fail) ==
  IF inserts_result(rows, fail) = "Ok" THEN insert_rows(t, seq, rows) ELSE t

\* A serial is not part of the transaction: the values the INSERTs drew are
\* not handed out again after a rollback.
serial_after(seq, rows, fail) == seq + inserts_executed(rows, fail)

mark_imported(ts, fail) ==
  /\ tasks' = inserts_commit(tasks, taskid_seq, ts, fail)
  /\ taskid_seq' = serial_after(taskid_seq, ts, fail)
  /\ last' = Outcome("mark_imported", inserts_result(ts, fail), {})
  /\ UNCHANGED <<logs, corpora, rerun, registration, ventilator, sink>>

(***************************************************************************)
(* sync, delete, add (lines 251-295) over the capability CortexORM.  An    *)
(* entity is its id, an Option, and its other fields, `row`; a table is    *)
(* its serial and its rows; `kind` names the entity type.                  *)
(***************************************************************************)
Entity(id, row) == [id |-> id, row |-> row]

\* Task: entry, serviceid, corpusid.
task_key(row) == <<row.entry, row.serviceid, row.corpusid>>

\* Corpus: "Unique by (name) for lookup purposes".
corpus_key(row) == row.name

\* The natural key select_by_key compares, per entity type.
natural_key(kind, row) == IF kind = "Task" THEN task_key(row) ELSE corpus_key(row)

\* d.select_by_id: the row with d's id, if there is one.
select_by_id(tbl, d) ==
  {Entity(d.id, tbl.rows[id]) : id \in d.id \cap DOMAIN tbl.rows}

\* d.select_by_key: the rows with d's natural key; the query hands back one
\* of them.
select_by_key(tbl, kind, d) ==
  {Entity(Some(id), tbl.rows[id]) : id \in {i \in DOMAIN tbl.rows : natural_key(kind, tbl.rows[i]) = natural_key(kind, d.row)}}

\* What sync can return when its query succeeds: the stored entity, or the
\* caller's copy when none is found.
sync(tbl, kind, d) ==
  LET synced == IF d.id # None THEN select_by_id(tbl, d) ELSE select_by_key(tbl, kind, d)
  IN IF synced = {} THEN {d} ELSE synced

\* d.delete: removes the row with d's id.
orm_delete(tbl, d) ==
  Table(tbl.seq, [id \in DOMAIN tbl.rows \ d.id |-> tbl.rows[id]])

\* d.insert: a new row with the caller's fields and the next serial value.
orm_insert(tbl, d) ==
  Table(tbl.seq + 1,
        [id \in DOMAIN tbl.rows \cup {tbl.seq + 1} |->
           IF id \in DOMAIN tbl.rows THEN tbl.rows[id] ELSE d.row])

AddOutcome(tbl, res, ret) == [tbl |-> tbl, res |-> res, ret |-> ret]

\* The store calls of add in program order: 1 the query of sync(&d), 2 the
\* query of the sync inside delete, 3 the DELETE, 4 the INSERT, 5 the query
\* of the final sync; 2 and 3 run only when the first sync has an id.  Each
\* is sent on the connection outside any transaction, so what ran before a
\* failed call stays.  `fail` is the call that returns Err (0: none does).
add_fail_points == 0..5

\* add after its first sync returned d_checked.
add_synced(tbl, kind, d, d_checked, fail) ==
  LET existed == d_checked.id # None
      deleted == IF existed THEN orm_delete(tbl, d_checked) ELSE tbl
      inserted == orm_insert(deleted, d)
  IN IF existed /\ fail \in {2, 3} THEN {AddOutcome(tbl, "Err", {})}
     ELSE IF fail = 4 THEN {AddOutcome(deleted, "Err", {})}
     ELSE IF fail = 5 THEN {AddOutcome(inserted, "Err", {})}
     ELSE {AddOutcome(inserted, "Ok", {d_final}) : d_final \in sync(inserted, kind, d)}

\* The outcomes of add(d): the table after it, Ok or Err, and the entity
\* it returned.
add(tbl, kind, d, fail) ==
  IF fail = 1 THEN {AddOutcome(tbl, "Err", {})}
  ELSE UNION {add_synced(tbl, kind, d, d_checked, fail) : d_checked \in sync(tbl, kind, d)}

\* add of a Task.
add_task(d, fail) ==
  \E out \in add(Table(taskid_seq, tasks), "Task", d, fail) :
    /\ tasks' = out.tbl.rows
    /\ taskid_seq' = out.tbl.seq
    /\ last' = Outcome("add", out.res, out.ret)
    /\ UNCHANGED <<logs, corpora, rerun, registration, ventilator, sink>>

\* add of a Corpus.
add_corpus(d, fail) ==
  \E out \in add(corpora, "Corpus", d, fail) :
    /\ corpora' = out.tbl
    /\ last' = Outcome("add", out.res, out.ret)
    /\ UNCHANGED <<tasks, logs, taskid_seq, rerun, registration, ventilator, sink>>

(***************************************************************************)
(* register_service (lines 328-352): a DELETE and a SELECT sent on the     *)
(* connection, each committed on its own, then one transaction of INSERTs. *)
(***************************************************************************)
\* `name : corpus_path, path : corpus_path.clone(), id : None`
corpus_placeholder(corpus_path) ==
  Entity(None, [path |-> corpus_path, name |-> corpus_path])

\* A registration that deletes nothing.
delete_pair_none(t, serviceid, corpusid) == t

\* DELETE from tasks where serviceid=$1 AND corpusid=$2
delete_pair(t, serviceid, corpusid) ==
  [id \in DOMAIN t \ pair_rows(t, corpusid, serviceid) |-> t[id]]

\* A manifest read from the rows of service 1.
manifest_rows_of_init(t, corpusid) ==
  {id \in DOMAIN t : t[id].serviceid = 1 /\ t[id].corpusid = corpusid}

\* SELECT entry from tasks where serviceid=2 AND corpusid=$1
manifest_rows(t, corpusid) ==
  {id \in DOMAIN t : t[id].serviceid = 2 /\ t[id].corpusid = corpusid}

\* The orders in which a query without ORDER BY can hand back the rows.
row_orders(ids) ==
  {o \in [1..Cardinality(ids) -> ids] : \A i, j \in DOMAIN o : o[i] = o[j] => i = j}

\* The rows of the INSERTs, one per entry, with status todo_raw.
fresh_tasks(entries, serviceid, corpusid) ==
  [i \in DOMAIN entries |->
     [entry |-> entries[i], serviceid |-> serviceid, corpusid |-> corpusid,
      status |-> TaskStatus_TODO]]

\* Up to the DELETE.  `fail` is "sync", "delete" or "none": sync(..).unwrap(),
\* corpus.id.unwrap() and service.id.unwrap() panic, `try!` returns the Err
\* of the DELETE.
register_service_delete(service_id, corpus_path, fail) ==
  /\ registration.pc = "idle"
  /\ UNCHANGED <<logs, taskid_seq, corpora, rerun, ventilator, sink>>
  /\ \E corpus \in sync(corpora, "Corpus", corpus_placeholder(corpus_path)) :
       IF fail = "sync" \/ corpus.id = None \/ service_id = None THEN
         /\ last' = Outcome("register_service", "Panic", {})
         /\ UNCHANGED <<tasks, registration>>
       ELSE IF fail = "delete" THEN
         /\ last' = Outcome("register_service", "Err", {})
         /\ UNCHANGED <<tasks, registration>>
       ELSE
         /\ tasks' = delete_pair(tasks, unwrap(service_id), unwrap(corpus.id))
         /\ registration' = [pc |-> "select", serviceid |-> unwrap(service_id),
                             corpusid |-> unwrap(corpus.id), entries |-> <<>>]
         /\ last' = Outcome("register_service", "Running", {})

\* The SELECT of the manifest; fail: its prepare or its query returns Err.
register_service_select(fail) ==
  /\ registration.pc = "select"
  /\ UNCHANGED <<tasks, logs, taskid_seq, corpora, rerun, ventilator, sink>>
  /\ IF fail THEN
       /\ registration' = NoRegistration
       /\ last' = Outcome("register_service", "Err", {})
     ELSE
       \E o \in row_orders(manifest_rows(tasks, registration.corpusid)) :
         /\ registration' = [registration EXCEPT
                               !.pc = "insert",
                               !.entries = [i \in DOMAIN o |-> tasks[o[i]].entry]]
         /\ last' = Outcome("register_service", "Running", {})

\* The transaction of INSERTs.
register_service_insert(fail) ==
  LET rows == fresh_tasks(registration.entries, registration.serviceid,
                          registration.corpusid)
  IN /\ registration.pc = "insert"
     /\ tasks' = inserts_commit(tasks, taskid_seq, rows, fail)
     /\ taskid_seq' = serial_after(taskid_seq, rows, fail)
     /\ registration' = NoRegistration
     /\ last' = Outcome("register_service", inserts_result(rows, fail), {})
     /\ UNCHANGED <<logs, corpora, rerun, ventilator, sink>>

(***************************************************************************)
(* The read paths: corpora (lines 355-371), progress_report (lines         *)
(* 374-402) and task_report (lines 406-523).  Percentages are kept in      *)
(* hundredths of a percent, the unit the code rounds to.                   *)
(***************************************************************************)
Max(a, b) == IF a > b THEN a ELSE b

\* A percentage cut off after two decimals.
percent_truncated(value, total) == (10000 * value) \div total

\* (100.0 * (value / total) * 100.0).round() / 100.0, for total > 0: f64
\* `round` takes the nearest integer, halves away from zero.
percent_rounded(value, total) == (20000 * value + total) \div (2 * total)

\* A count over the corpus, whatever the service.
bucket_count_of_corpus(t, serviceid, corpusid, key) ==
  Cardinality({id \in DOMAIN t :
                 t[id].corpusid = corpusid /\ TaskStatus_key(t[id].status) = key})

\* The statuses of the rows of a pair that fall into a bucket:
\* select status,count(*) .. where serviceid=$1 and corpusid=$2 group by
\* status, added up per key.
bucket_count(t, serviceid, corpusid, key) ==
  Cardinality({id \in pair_rows(t, corpusid, serviceid) : TaskStatus_key(t[id].status) = key})

\* stats_hash before the percentages: every key of TaskStatus::keys() and
\* "total"; `counted` tells whether the query's rows were added.
stats_counts(t, serviceid, corpusid, counted) ==
  [key \in TaskStatus_keys \cup {"total"} |->
     IF ~counted THEN 0
     ELSE IF key = "total" THEN Cardinality(pair_rows(t, corpusid, serviceid))
     ELSE bucket_count(t, serviceid, corpusid, key)]

\* aux_stats_compute_percentages(&mut stats_hash, None): one
\* "<key>_percent" per key, "total" included, against max(1.0, total).
aux_stats_compute_percentages(counts) ==
  [counts |-> counts,
   percents |-> [key \in DOMAIN counts |->
                   percent_rounded(counts[key], Max(1, counts["total"]))]]

\* The store calls of progress_report in program order: 1 the prepare, 2
\* the query.  Both failures leave the zeros; the arguments of the query
\* unwrap s.id and c.id.
progress_report(c_id, s_id, fail) ==
  /\ last' =
       IF fail # 1 /\ (s_id = None \/ c_id = None)
       THEN Outcome("progress_report", "Panic", {})
       ELSE Outcome("progress_report", "Ok",
              {aux_stats_compute_percentages(
                 stats_counts(tasks,
                              IF s_id = None THEN 0 ELSE unwrap(s_id),
                              IF c_id = None THEN 0 ELSE unwrap(c_id),
                              fail = 0))})
  /\ UNCHANGED <<tasks, logs, taskid_seq, corpora, rerun, registration, ventilator, sink>>

\* corpora(): every row of the table, or an empty vector when the prepare
\* or the query fails.
corpora_read(fail) ==
  /\ last' = Outcome("corpora", "Ok",
                     IF fail THEN {}
                     ELSE {Entity(Some(id), corpora.rows[id]) : id \in DOMAIN corpora.rows})
  /\ UNCHANGED <<tasks, logs, taskid_seq, corpora, rerun, registration, ventilator, sink>>

\* `limit 100` of the two queries that list entries.
ReportLimit == 100

\* The results a query with `limit 100` can hand back.
limited(rows) ==
  {c \in SUBSET rows : Cardinality(c) = Min(ReportLimit, Cardinality(rows))}

\* entry_name_regex.replace(&entry, "$1") with ^.+/(.+)\..+$ : the entries
\* of the model hold no '/', the pattern does not match them and replace
\* returns its input.
entry_name(entry) == entry

entry_map(t, id, details) ==
  [entry |-> t[id].entry, entry_name |-> entry_name(t[id].entry),
   entry_taskid |-> id, details |-> details]

\* where serviceid=$1 and corpusid=$2 and status=$3
status_rows(t, serviceid, corpusid, raw_status) ==
  {id \in pair_rows(t, corpusid, serviceid) : t[id].status = raw_status}

\* The log rows joined with the tasks of the pair: severity=$4, and
\* category=$5 where given, and what=$6 where both are given.
joined_logs(t, lg, serviceid, corpusid, raw_status, sel) ==
  {r \in DOMAIN lg :
     /\ r.taskid \in status_rows(t, serviceid, corpusid, raw_status)
     /\ r.severity = unwrap(sel.severity)
     /\ sel.category # None => r.category = unwrap(sel.category)
     /\ (sel.category # None /\ sel.what # None) => r.what = unwrap(sel.what)}

RECURSIVE messages_in(_, _)
\* count(*) over log rows, with their multiplicity.
messages_in(lg, rows) ==
  IF rows = {} THEN 0
  ELSE LET r == CHOOSE x \in rows : TRUE IN lg[r] + messages_in(lg, rows \ {r})

\* 100.0 * (value as f64 / total as f64), rounded: a zero total gives inf or
\* NaN, which to_string() prints.
ratio_percent(value, total) ==
  IF total # 0 THEN percent_rounded(value, total)
  ELSE IF value = 0 THEN "NaN" ELSE "inf"

\* aux_task_rows_stats: one map per group and a last one for the total,
\* whose percentages are the literal "100".
aux_task_rows_stats(lg, joined, by_what, total_tasks, total_messages) ==
  LET name_of(r) == IF by_what THEN r.what ELSE r.category
      group(n) == {r \in joined : name_of(r) = n}
      stat(n) ==
        LET stat_tasks == Cardinality({r.taskid : r \in group(n)})
            stat_messages == messages_in(lg, group(n))
        IN [name |-> n, tasks |-> stat_tasks, messages |-> stat_messages,
            tasks_percent |-> ratio_percent(stat_tasks, total_tasks),
            messages_percent |-> ratio_percent(stat_messages, total_messages)]
  IN {stat(name_of(r)) : r \in joined}
     \cup {[name |-> "total", tasks |-> total_tasks, messages |-> total_messages,
            tasks_percent |-> 10000, messages_percent |-> 10000]}

\* The store calls of task_report in program order.  severity "no_problem":
\* 1 the prepare, 2 the query.  Other severities: 1 the prepare and 2 the
\* query of the total count, 3 the prepare and 4 the query of the breakdown
\* or of the entries, 5 the prepare and 6 the query of the message count.
report_fail_points == 0..6

\* How task_report can end: the prepare of the total count is unwrapped,
\* and so are s.id and c.id in the arguments of every query; every other
\* failure gives an empty vector.
task_report_results(t, lg, c_id, s_id, sel, fail) ==
  LET Panicked == {Outcome("task_report", "Panic", {})}
      Returned(rows) == Outcome("task_report", "Ok", rows)
  IN
  IF sel.severity = None THEN {Returned({})}
  ELSE
    LET severity_name == unwrap(sel.severity)
        raw_status == TaskStatus_from_key_raw(severity_name)
        no_id == s_id = None \/ c_id = None
        serviceid == IF s_id = None THEN 0 ELSE unwrap(s_id)
        corpusid == IF c_id = None THEN 0 ELSE unwrap(c_id)
    IN IF severity_name = "no_problem" THEN
         IF fail = 1 THEN {Returned({})}
         ELSE IF no_id THEN Panicked
         ELSE IF fail = 2 THEN {Returned({})}
         ELSE {Returned(rows) :
                 rows \in limited({entry_map(t, id, "OK") :
                            id \in status_rows(t, serviceid, corpusid, raw_status)})}
       ELSE IF fail = 1 \/ no_id THEN Panicked
       ELSE
         LET total_tasks == IF fail = 2 THEN 0
                            ELSE Cardinality(pair_rows(t, corpusid, serviceid))
             joined == joined_logs(t, lg, serviceid, corpusid, raw_status, sel)
         IN IF fail \in {3, 4} THEN {Returned({})}
            ELSE IF sel.category # None /\ sel.what # None THEN
              {Returned(rows) :
                 rows \in limited({entry_map(t, r.taskid, "details") : r \in joined})}
            ELSE IF fail \in {5, 6} THEN {Returned({})}
            ELSE {Returned(aux_task_rows_stats(lg, joined, sel.category # None,
                                               total_tasks, messages_in(lg, joined)))}

task_report(c_id, s_id, sel, fail) ==
  /\ last' \in task_report_results(tasks, logs, c_id, s_id, sel, fail)
  /\ UNCHANGED <<tasks, logs, taskid_seq, corpora, rerun, registration, ventilator, sink>>

(***************************************************************************)
(* Ventilator::start (client.rs lines 33-49): a REP socket and a loop of   *)
(* recv, println, request_id += 1, send_str.  Every Err is unwrapped: the  *)
(* thread panics and the loop is over.                                     *)
(***************************************************************************)
RECURSIVE to_string(_)
\* request_id.to_string(): the decimal digits.
to_string(n) == IF n < 10 THEN <<n>> ELSE to_string(n \div 10) \o <<n % 10>>

\* A loop that does not count.
request_id_kept(request_id) == request_id

\* request_id += 1;
request_id_next(request_id) == request_id + 1

\* What the panic of an unwrap or of the assert leaves: no socket, no loop.
panicked(v) == [v EXCEPT !.pc = "panicked"]

\* context.socket(zmq::REP), bind, `let mut request_id = 0;`.  fail: the
\* socket cannot be made or bound.
ventilator_bind(fail) ==
  /\ ventilator.pc = "new"
  /\ ventilator' = IF fail THEN panicked(ventilator)
                   ELSE [ventilator EXCEPT !.pc = "recv", !.request_id = 0]
  /\ UNCHANGED <<tasks, logs, taskid_seq, corpora, rerun, registration, last, sink>>

\* source.recv(&mut msg, 0).unwrap(); println!(.., msg.as_str().unwrap());
\* request_id += 1;  `utf8` tells whether msg.as_str() is Some.
ventilator_recv(msg, utf8, fail) ==
  /\ ventilator.pc = "recv"
  /\ ventilator' =
       IF fail THEN panicked(ventilator)
       ELSE LET got == [ventilator EXCEPT !.received = Append(@, msg)]
            IN IF ~utf8 THEN panicked(got)
               ELSE [got EXCEPT !.pc = "send",
                                !.request_id = request_id_next(@)]
  /\ UNCHANGED <<tasks, logs, taskid_seq, corpora, rerun, registration, last, sink>>

\* source.send_str(&request_id.to_string(), 0).unwrap();
ventilator_send(fail) ==
  /\ ventilator.pc = "send"
  /\ ventilator' =
       IF fail THEN panicked(ventilator)
       ELSE [ventilator EXCEPT !.pc = "recv",
                               !.sent = Append(@, to_string(ventilator.request_id))]
  /\ UNCHANGED <<tasks, logs, taskid_seq, corpora, rerun, registration, last, sink>>

(***************************************************************************)
(* Sink::start (client.rs lines 53-72): a PULL socket, one recv for the    *)
(* start of the batch and a loop of recv and println.  Every Err is        *)
(* unwrapped; no message is handed to the store.                           *)
(***************************************************************************)
\* context.socket(zmq::PULL) and bind.  fail: the socket cannot be made or
\* bound.
sink_bind(fail) ==
  /\ sink.pc = "new"
  /\ sink' = IF fail THEN panicked(sink) ELSE [sink EXCEPT !.pc = "init"]
  /\ UNCHANGED <<tasks, logs, taskid_seq, corpora, rerun, registration, last,
                 ventilator>>

\* receiver.recv(&mut msg, 0).unwrap(); println!(.., msg.as_str().unwrap());
\* the recv before the loop (pc "init") and the one in it (pc "recv").
sink_recv(msg, utf8, fail) ==
  /\ sink.pc \in {"init", "recv"}
  /\ sink' =
       IF fail THEN panicked(sink)
       ELSE LET got == [sink EXCEPT !.received = Append(@, msg)]
            IN IF ~utf8 THEN panicked(got) ELSE [got EXCEPT !.pc = "recv"]
  /\ UNCHANGED <<tasks, logs, taskid_seq, corpora, rerun, registration, last,
                 ventilator>>

(***************************************************************************)
(* Inputs                                                                  *)
(***************************************************************************)
SeqsUpTo(S, n) == UNION {[1..k -> S] : k \in 0..n}

\* The reports with n messages: they name task 1, task 2 or a task without
\* an id, as NoProblem or as Error.
ReportsWith(n) ==
  [task_id : Option({1, 2}), status : {TaskStatus_NoProblem, TaskStatus_Error},
   messages : [1..n -> Messages]]

\* The batches of exactly `size` reports and messages together.
RECURSIVE BatchesOf(_)
BatchesOf(size) ==
  IF size = 0 THEN {<<>>}
  ELSE UNION {{<<r>> \o rs : r \in ReportsWith(k - 1), rs \in BatchesOf(size - k)} :
                k \in 1..size}

Batches == UNION {BatchesOf(size) : size \in 0..MaxBatchSize}

NoArg == {}

\* A worker's report of one task without messages.
PlainReports == [task_id : Option(TaskIds), status : TerminalCodes, messages : {<<>>}]

\* The ids of the rows fetch_tasks returned.
ids_of(ret) == {r.id : r \in ret}

(***************************************************************************)
(* SpecClaim: the claim path.  Callers claim tasks of any service with any *)
(* limit and any mark the generator draws, workers complete single tasks,  *)
(* and the dispatcher sweeps the limbo tasks.  arg holds the arguments of  *)
(* the last fetch_tasks call.                                              *)
(***************************************************************************)
Init ==
  /\ InitStore
  /\ arg = NoArg
  /\ handed = {}

ClaimFetch ==
  \E service_id \in Option(ServiceIds), limit \in 0..MaxLimit,
     mark \in claim_marks, fail \in BOOLEAN :
    /\ fetch_tasks(service_id, limit, mark, fail)
    /\ arg' = [service |-> service_id, limit |-> limit, fail |-> fail]
    /\ handed' = handed \cup ids_of(last'.ret)

ClaimDone ==
  \E r \in PlainReports, fail \in BOOLEAN :
    /\ mark_done(<<r>>, IF fail THEN 3 ELSE 0)
    /\ arg' = NoArg
    /\ UNCHANGED handed

ClaimClearLimbo ==
  \E fail \in BOOLEAN :
    /\ clear_limbo_tasks(fail)
    /\ arg' = NoArg
    /\ handed' = {}

NextClaim == ClaimFetch \/ ClaimDone \/ ClaimClearLimbo

SpecClaim == Init /\ [][NextClaim]_vars

(***************************************************************************)
(* SpecRerun: reruns next to the other callers.  Workers claim single      *)
(* tasks under mark 1 and report them with at most one message, an         *)
(* operator marks corpus 1 of service 3 (or a corpus without an id) for    *)
(* rerun with any of the four selector forms, any statement of which may   *)
(* fail, and the dispatcher sweeps the limbo tasks.  The other callers run *)
(* between the statements of a mark_rerun call as well.  Task 3, of corpus *)
(* 2, is outside every rerun.  arg.whole tells that the mark_rerun call in *)
(* progress or just completed was given no severity, category or what and  *)
(* that no other operation ran since it started; arg.positive holds the    *)
(* tasks whose status was positive when the last operation, a              *)
(* clear_limbo_tasks call, started.                                        *)
(***************************************************************************)
RerunArg(whole, positive) == [whole |-> whole, positive |-> positive]

EntireCorpus == Selector(None, None, None)

Selectors ==
  {EntireCorpus,
   Selector(Some("error"), None, None),
   Selector(Some("error"), Some("cat"), None),
   Selector(Some("error"), Some("cat"), Some("what"))}

\* A worker's report of one task, as NoProblem or as Error, with at most one
\* message.
ShortReports ==
  [task_id : {Some(id) : id \in TaskIds},
   status : {TaskStatus_NoProblem, TaskStatus_Error},
   messages : SeqsUpTo([severity : {"error"}, category : Categories, what : Whats], 1)]

positive_rows(t) == {id \in DOMAIN t : t[id].status > 0}

InitRerun ==
  /\ InitStore
  /\ arg = RerunArg(FALSE, {})
  /\ handed = {}

RerunFetch ==
  \E mark \in {1} :
    /\ fetch_tasks(Some(3), 1, mark, FALSE)
    /\ arg' = RerunArg(FALSE, {})
    /\ UNCHANGED handed

RerunDone ==
  \E r \in ShortReports :
    /\ r.messages = <<>> \/ BagCardinality(logs) <= MaxRerunLogs
    /\ mark_done(<<r>>, 0)
    /\ arg' = RerunArg(FALSE, {})
    /\ UNCHANGED handed

RerunClearLimbo ==
  \E fail \in BOOLEAN :
    /\ clear_limbo_tasks(fail)
    /\ arg' = RerunArg(FALSE, positive_rows(tasks))
    /\ UNCHANGED handed

RerunTag ==
  \E corpus_id \in Option({1}), service_id \in {Some(3)},
     sel \in Selectors, mark_rng \in rerun_rngs, fail \in BOOLEAN :
    /\ mark_rerun_tag(corpus_id, service_id, sel, mark_rng, fail)
    /\ arg' = RerunArg(rerun'.pc # "idle" /\ sel = EntireCorpus, {})
    /\ UNCHANGED handed

RerunDelete ==
  \E fail \in BOOLEAN :
    /\ mark_rerun_delete(fail)
    /\ arg' = RerunArg(arg.whole /\ rerun'.pc # "idle", {})
    /\ UNCHANGED handed

RerunRequeue ==
  \E fail \in BOOLEAN :
    /\ mark_rerun_requeue(fail)
    /\ arg' = RerunArg(arg.whole /\ ~fail, {})
    /\ UNCHANGED handed

NextRerun ==
  \/ RerunFetch
  \/ RerunDone
  \/ RerunClearLimbo
  \/ RerunTag
  \/ RerunDelete
  \/ RerunRequeue

SpecRerun == InitRerun /\ [][NextRerun]_vars

(***************************************************************************)
(* Claims about fetch_tasks, under SpecClaim.                              *)
(***************************************************************************)
fetched == last.op = "fetch_tasks"

\* C1: the ids a fetch_tasks call returns are disjoint from the ids returned
\* by every fetch_tasks call before it, as long as no clear_limbo_tasks (nor
\* mark_rerun, register_service) ran in between: no task is handed out twice.
C1_ClaimsDisjoint ==
  [][fetched' => ids_of(last'.ret) \cap handed = {}]_vars

\* C2: fetch_tasks(service, n) returns at most n tasks, each of the given
\* service and with status 0 before the call, and changes the status of no
\* task it does not return.
C2_FetchBounded ==
  [][fetched' =>
       /\ Cardinality(last'.ret) <= arg'.limit
       /\ ids_of(last'.ret) \subseteq DOMAIN tasks
       /\ \A r \in last'.ret :
            /\ Some(r.serviceid) = arg'.service
            /\ tasks[r.id].serviceid = r.serviceid
            /\ tasks[r.id].status = 0
       /\ DOMAIN tasks' = DOMAIN tasks
       /\ \A id \in DOMAIN tasks \ ids_of(last'.ret) :
            tasks'[id].status = tasks[id].status]_vars

\* A call with limit 2 that returned two tasks under a positive tag and left
\* a third queued task of the service in the queue.
C2_Witness ==
  /\ fetched
  /\ arg.limit = 2
  /\ Cardinality(last.ret) = 2
  /\ \A r \in last.ret : r.status > 0
  /\ \E id \in DOMAIN tasks \ ids_of(last.ret) :
       tasks[id].status = 0 /\ Some(tasks[id].serviceid) = arg.service

\* C3: every task fetch_tasks returned carries, in the store and in the
\* returned row, one and the same strictly positive tag.
C3_PositiveTag ==
  fetched =>
    /\ \A r \in last.ret : r.status > 0 /\ tasks[r.id].status = r.status
    /\ \A r1, r2 \in last.ret : r1.status = r2.status

\* C4 as stated: fetch_tasks never returns an error; with an unknown service
\* and with a failing store alike it returns an empty list.
C4_NeverAnError ==
  fetched /\ (arg.service = None \/ arg.fail) => last.res = "Ok" /\ last.ret = {}

(***************************************************************************)
(* Claims about mark_rerun and clear_limbo_tasks, under SpecRerun.         *)
(***************************************************************************)
rerun_returned == last.op = "mark_rerun" /\ last.res # "Running"

\* C7: when mark_rerun(corpus, service, None, None, None) completes with no
\* other operation between its statements, whatever mark it drew, every task
\* of the (corpus, service) pair has status -5, none has a status in -1..-4,
\* and no log row of a task of the pair remains.
C7_WholePairRequeued ==
  [][rerun.pc = "requeue" /\ arg.whole /\ rerun_returned' /\ last'.res = "Ok" =>
       LET pair == {id \in DOMAIN tasks' :
                      /\ tasks'[id].corpusid = rerun.corpusid
                      /\ tasks'[id].serviceid = rerun.serviceid}
       IN /\ \A id \in pair :
               tasks'[id].status = -5 /\ tasks'[id].status \notin {-1, -2, -3, -4}
          /\ \A r \in BagToSet(logs') : r.taskid \notin pair
          /\ \A id \in DOMAIN tasks' \ pair : tasks'[id].status = tasks[id].status]_vars

\* A whole-pair rerun of corpus 1 has just completed undisturbed: tasks 1 and
\* 2 are requeued, while task 3 of corpus 2 keeps its Error status and its
\* log row.
C7_Witness ==
  /\ rerun_returned
  /\ last.res = "Ok"
  /\ arg.whole
  /\ tasks[1].status = -5
  /\ tasks[2].status = -5
  /\ tasks[3].status = -3
  /\ \E r \in BagToSet(logs) : r.taskid = 3

\* C8: the tag mark_rerun writes with its first statement is negative and is
\* none of 0, -1, -2, -3, -4, -5.
C8_TagDistinguishable ==
  rerun.pc # "idle" => rerun.mark < 0 /\ rerun.mark \notin {-1, -2, -3, -4, -5}

\* C9: whenever no mark_rerun call is in progress, also after one returned an
\* error from its second or third statement, every task status is 0, a
\* positive claim tag or one of -1, -2, -3, -4, -5.
C9_NoTagOutsideRerun ==
  rerun.pc = "idle" =>
    \A id \in DOMAIN tasks :
      tasks[id].status >= 0 \/ tasks[id].status \in {-1, -2, -3, -4, -5}

\* C10: clear_limbo_tasks sets to 0 exactly the tasks whose status is
\* positive when it is called and leaves every other task (status 0, -1..-4,
\* -5 or a rerun tag) and every log row unchanged.
C10_LimboCleared ==
  [][last'.op = "clear_limbo_tasks" =>
       /\ DOMAIN tasks' = DOMAIN tasks
       /\ logs' = logs
       /\ last'.res = "Ok" =>
            \A id \in DOMAIN tasks :
              tasks'[id] = IF tasks[id].status > 0
                            THEN [tasks[id] EXCEPT !.status = 0]
                            ELSE tasks[id]
       /\ last'.res # "Ok" => tasks' = tasks]_vars

\* A sweep that reset a claimed task while another task was requeued (-5), a
\* third carried a rerun tag below -5, and the logs table held a row.
C10_Witness ==
  /\ last.op = "clear_limbo_tasks"
  /\ last.res = "Ok"
  /\ arg.positive # {}
  /\ \A id \in arg.positive : tasks[id].status = 0
  /\ \E id \in DOMAIN tasks : tasks[id].status = -5
  /\ \E id \in DOMAIN tasks : tasks[id].status < -5
  /\ logs # EmptyBag

(***************************************************************************)
(* SpecDone: the completion path.  One batch of reports, drawn at the      *)
(* start, is handed to mark_done; the store call that fails (if any) is    *)
(* drawn at each call and kept in arg.fail.                                *)
(***************************************************************************)
InitDone ==
  /\ InitStore
  /\ arg \in [reports : Batches, fail : {0}]
  /\ handed = {}

DoneBatch ==
  \E fail \in fail_points(arg.reports) :
    /\ BagCardinality(logs) <= MaxLogs
    /\ mark_done(arg.reports, fail)
    /\ arg' = [arg EXCEPT !.fail = fail]
    /\ UNCHANGED handed

NextDone == DoneBatch

SpecDone == InitDone /\ [][NextDone]_vars

(***************************************************************************)
(* Claims about mark_done, under SpecDone.                                 *)
(***************************************************************************)
\* The ids of the tasks the reports of a batch name.
named(rs) == UNION {rs[i].task_id : i \in 1..Len(rs)}

\* The reports of the batch that name the task, by position.
naming(rs, id) == {i \in 1..Len(rs) : rs[i].task_id = Some(id)}

\* The status code of the last report of the batch that names the task.
final_status(rs, id) ==
  rs[CHOOSE i \in naming(rs, id) : \A j \in naming(rs, id) : j <= i].status

\* The messages of a report whose severity is neither 'info' nor 'status'.
stored_messages(r) ==
  Cardinality({k \in 1..Len(r.messages) :
                 r.messages[k].severity \notin {"info", "status"}})

RECURSIVE sum_stored(_, _)
sum_stored(rs, is) ==
  IF is = {} THEN 0
  ELSE LET i == CHOOSE i \in is : TRUE IN
       stored_messages(rs[i]) + sum_stored(rs, is \ {i})

\* The log rows of a task.
rows_of(lg, id) ==
  BagCardinality([r \in {r \in DOMAIN lg : r.taskid = id} |-> lg[r]])

done_ok == last.op = "mark_done" /\ last.res = "Ok"

\* C5 as stated: after a successful mark_done, for every report of the batch
\* the task's status is the report's status code and the log rows inserted
\* for the task are as many as the report's messages that are neither 'info'
\* nor 'status'.
C5_EveryReportApplied ==
  [][done_ok' =>
       \A i \in 1..Len(arg'.reports) :
         LET r == arg'.reports[i]
             id == unwrap(r.task_id)
         IN /\ tasks'[id].status = r.status
            /\ rows_of(logs', id) - rows_of(logs, id) = stored_messages(r)]_vars

\* C5 amended: after a successful mark_done, for every task the batch names
\* the status is the status code of the last report naming it, and the log
\* rows inserted for it are as many as the messages, over all the reports
\* naming it, that are neither 'info' nor 'status'.
C5_LastReportApplied ==
  [][done_ok' =>
       \A id \in named(arg'.reports) :
         /\ tasks'[id].status = final_status(arg'.reports, id)
         /\ rows_of(logs', id) - rows_of(logs, id)
              = sum_stored(arg'.reports, naming(arg'.reports, id))]_vars

\* A successful batch of two reports on one task with different status
\* codes, the first of them with an 'error' message.
C5_Witness ==
  /\ done_ok
  /\ Len(arg.reports) = 2
  /\ arg.reports[1].task_id = Some(1)
  /\ arg.reports[2].task_id = Some(1)
  /\ arg.reports[1].status = TaskStatus_Error
  /\ arg.reports[2].status = TaskStatus_NoProblem
  /\ Len(arg.reports[1].messages) = 1
  /\ arg.reports[1].messages[1].severity = "error"
  /\ tasks[1].status = TaskStatus_NoProblem
  /\ rows_of(logs, 1) > 0

\* How often the messages of the batch produce the log row.
RECURSIVE row_count(_, _)
row_count(rs, row) ==
  IF rs = <<>> THEN 0
  ELSE LET r == Head(rs) IN
       Cardinality({k \in 1..Len(r.messages) :
          /\ r.task_id = Some(row.taskid)
          /\ r.messages[k].severity \notin {"info", "status"}
          /\ r.messages[k].severity = row.severity
          /\ r.messages[k].category = row.category
          /\ r.messages[k].what = row.what})
       + row_count(Tail(rs), row)

LogRows == [taskid : TaskIds, severity : Severities, category : Categories, what : Whats]

\* C6: mark_done is all-or-nothing.  When a store call of the batch fails or
\* a report's task has no id, the tasks and logs tables are as before the
\* call; otherwise every status update and every log row of the batch is in
\* the store.
C6_AllOrNothing ==
  [][last'.op = "mark_done" =>
       IF arg'.fail # 0 \/ \E i \in 1..Len(arg'.reports) : arg'.reports[i].task_id = None
       THEN tasks' = tasks /\ logs' = logs /\ last'.res # "Ok"
       ELSE /\ last'.res = "Ok"
            /\ \A id \in DOMAIN tasks' :
                 tasks'[id].status =
                   IF id \in named(arg'.reports) THEN final_status(arg'.reports, id)
                   ELSE tasks[id].status
            /\ \A row \in LogRows :
                 CopiesIn(row, logs') = CopiesIn(row, logs) + row_count(arg'.reports, row)]_vars

\* A batch of two reports whose second report fails after the first report's
\* status update and log insert ran.
C6_Witness ==
  /\ last.op = "mark_done"
  /\ last.res = "Panic"
  /\ Len(arg.reports) = 2
  /\ arg.reports[1].task_id # None
  /\ \E k \in 1..Len(arg.reports[1].messages) :
       arg.reports[1].messages[k].severity = "error"
  /\ arg.fail > 4


(***************************************************************************)
(* SpecCrash: two workers and a dispatcher that crashes and restarts.      *)
(* A worker that holds nothing claims tasks of service 3 with a positive   *)
(* mark and later reports each task it holds; the dispatcher runs          *)
(* clear_limbo_tasks once when it starts again.  The workers outlive the   *)
(* dispatcher: the store is a separate process and their reports reach it. *)
(* handed[w] is what worker w holds; arg.up tells whether the dispatcher   *)
(* runs, arg.applied[id] the workers whose report of task id was applied.  *)
(***************************************************************************)
Workers == {1, 2}

positive_marks == claim_marks \ {0}

InitCrash ==
  /\ InitStore
  /\ arg = [up |-> TRUE, applied |-> [id \in TaskIds |-> {}]]
  /\ handed = [w \in Workers |-> {}]

CrashClaim ==
  \E w \in Workers, limit \in 1..MaxLimit, mark \in positive_marks :
    /\ arg.up
    /\ handed[w] = {}
    /\ fetch_tasks(Some(3), limit, mark, FALSE)
    /\ handed' = [handed EXCEPT ![w] = ids_of(last'.ret)]
    /\ UNCHANGED arg

CrashReport ==
  \E w \in Workers : \E id \in handed[w], status \in {TaskStatus_NoProblem, TaskStatus_Error} :
    /\ mark_done(<<[task_id |-> Some(id), status |-> status, messages |-> <<>>]>>, 0)
    /\ handed' = [handed EXCEPT ![w] = @ \ {id}]
    /\ arg' = [arg EXCEPT !.applied[id] = @ \cup {w}]

\* The dispatcher process dies; the store and the workers go on.
CrashDown ==
  /\ arg.up
  /\ arg' = [arg EXCEPT !.up = FALSE]
  /\ UNCHANGED <<tasks, logs, taskid_seq, corpora, rerun, registration, last, ventilator, sink, handed>>

CrashRestart ==
  /\ ~arg.up
  /\ clear_limbo_tasks(FALSE)
  /\ arg' = [arg EXCEPT !.up = TRUE]
  /\ UNCHANGED handed

NextCrash == CrashClaim \/ CrashReport \/ CrashDown \/ CrashRestart

SpecCrash == InitCrash /\ [][NextCrash]_vars

\* C11: across a crash and restart no task is held by two workers at the
\* same time and no task has the reports of two different claims applied.
C11_NoDuplicateWork ==
  \A id \in TaskIds :
    /\ Cardinality({w \in Workers : id \in handed[w]}) <= 1
    /\ Cardinality(arg.applied[id]) <= 1

(***************************************************************************)
(* SpecRequeue: reruns followed by polling.  An administrator reruns the   *)
(* pair (corpus 1, service 3), workers complete tasks, and the dispatcher  *)
(* keeps calling fetch_tasks for service 3 with a limit of at least 1: the *)
(* specification is weakly fair to the poll.  arg.polls is the parity of   *)
(* the number of polls, so that a poll which finds nothing is a step too.  *)
(***************************************************************************)
InitRequeue ==
  /\ InitStore
  /\ arg = [polls |-> 0]
  /\ handed = {}

RequeueFetch ==
  \E limit \in 1..MaxLimit, mark \in positive_marks :
    /\ fetch_tasks(Some(3), limit, mark, FALSE)
    /\ arg' = [polls |-> 1 - arg.polls]
    /\ UNCHANGED handed

RequeueDone ==
  \E id \in TaskIds, status \in {TaskStatus_NoProblem, TaskStatus_Error} :
    /\ tasks[id].status > TaskStatus_TODO
    /\ mark_done(<<Report(Some(id), status, <<>>)>>, 0)
    /\ UNCHANGED <<arg, handed>>

RequeueTag ==
  \E mark_rng \in rerun_rngs :
    /\ mark_rerun_tag(Some(1), Some(3), EntireCorpus, mark_rng, FALSE)
    /\ UNCHANGED <<arg, handed>>

RequeueDelete == mark_rerun_delete(FALSE) /\ UNCHANGED <<arg, handed>>

RequeueRequeue == mark_rerun_requeue(FALSE) /\ UNCHANGED <<arg, handed>>

NextRequeue ==
  RequeueFetch \/ RequeueDone \/ RequeueTag \/ RequeueDelete \/ RequeueRequeue

SpecRequeue == InitRequeue /\ [][NextRequeue]_vars /\ WF_vars(RequeueFetch)

\* C12: with fetch_tasks called again and again, every task that mark_rerun
\* left at the requeued status -5 is eventually returned by a fetch_tasks
\* call, unless another operation changes its status first.
C12_RequeuedEventuallyFetched ==
  \A id \in TaskIds :
    (tasks[id].status = RequeuedStatus)
      ~> (tasks[id].status # RequeuedStatus \/ (fetched /\ id \in ids_of(last.ret)))

(***************************************************************************)
(* SpecRegister: imports and registrations on corpus "c1".  Importers      *)
(* insert tasks of the import service and of service 3 with mark_imported, *)
(* a worker claims tasks of service 3, and an administrator registers the  *)
(* import service, service 3 or a service without an id on "c1" or on the  *)
(* unknown path "x".  The statements of register_service are steps of      *)
(* their own, so other calls can run between them.  arg is the history of  *)
(* the register_service call: its pair, the rows the pair had at the call  *)
(* (before), whether no other call ran since it started (alone), the rows  *)
(* of the pair after the call that just succeeded (just) and, when the     *)
(* call before it was a successful call on the same pair with nothing in   *)
(* between, the rows after that one (first).                               *)
(***************************************************************************)
Entries == {"a", "b"}

ImportTasks ==
  [entry : Entries, serviceid : {service_named("import"), 3}, corpusid : {1},
   status : {TaskStatus_TODO}]

ImportBatches == SeqsUpTo(ImportTasks, MaxImport)

\* The (entry, status) pairs of the rows of a pair, with their multiplicity.
RECURSIVE rows_bag(_, _)
rows_bag(t, ids) ==
  IF ids = {} THEN EmptyBag
  ELSE LET id == CHOOSE i \in ids : TRUE
       IN SetToBag({<<t[id].entry, t[id].status>>}) (+) rows_bag(t, ids \ {id})

NoHistory ==
  [serviceid |-> 0, corpusid |-> 0, before |-> {}, alone |-> FALSE,
   just |-> None, first |-> None]

InitRegister ==
  /\ tasks = <<>>
  /\ logs = EmptyBag
  /\ taskid_seq = 0
  /\ corpora = InitCorpora
  /\ rerun = NoCall
  /\ registration = NoRegistration
  /\ last = Outcome("init", "Ok", {})
  /\ ventilator = NotStarted
  /\ sink = NotReceiving
  /\ arg = NoHistory
  /\ handed = {}

\* Another call ran: the registration in progress is no longer alone and the
\* next one does not follow the last one directly.
interleaved == [arg EXCEPT !.alone = FALSE, !.just = None, !.first = None]

RegImport ==
  \E ts \in ImportBatches : \E fail \in insert_fail_points(ts) :
    /\ taskid_seq + Len(ts) <= MaxTaskId
    /\ mark_imported(ts, fail)
    /\ arg' = interleaved
    /\ UNCHANGED handed

RegFetch ==
  /\ fetch_tasks(Some(3), 1, 1, FALSE)
  /\ arg' = interleaved
  /\ UNCHANGED handed

RegDelete ==
  \E service_id \in Option({service_named("import"), 3}), corpus_path \in {"c1", "x"},
     fail \in {"none", "sync", "delete"} :
    /\ register_service_delete(service_id, corpus_path, fail)
    /\ arg' = IF registration'.pc = "idle" THEN NoHistory
              ELSE [arg EXCEPT !.serviceid = registration'.serviceid,
                               !.corpusid = registration'.corpusid,
                               !.before = pair_rows(tasks, registration'.corpusid,
                                                    registration'.serviceid),
                               !.alone = TRUE]
    /\ UNCHANGED handed

RegSelect ==
  \E fail \in BOOLEAN :
    /\ register_service_select(fail)
    /\ arg' = IF fail THEN NoHistory ELSE arg
    /\ UNCHANGED handed

RegInsert ==
  \E fail \in insert_fail_points(registration.entries) :
    /\ taskid_seq + Len(registration.entries) <= MaxTaskId
    /\ register_service_insert(fail)
    /\ arg' = IF last'.res = "Ok" /\ arg.alone
              THEN LET now == [serviceid |-> arg.serviceid, corpusid |-> arg.corpusid,
                               rows |-> rows_bag(tasks', pair_rows(tasks', arg.corpusid,
                                                                   arg.serviceid))]
                   IN [arg EXCEPT !.just = Some(now),
                                  !.first = {f \in arg.just :
                                               /\ f.serviceid = arg.serviceid
                                               /\ f.corpusid = arg.corpusid}]
              ELSE [arg EXCEPT !.just = None, !.first = None]
    /\ UNCHANGED handed

NextRegister == RegImport \/ RegFetch \/ RegDelete \/ RegSelect \/ RegInsert

SpecRegister == InitRegister /\ [][NextRegister]_vars

\* A register_service call just returned Ok and no other call ran between
\* its statements.
registered == last.op = "register_service" /\ last.res = "Ok" /\ arg.alone

\* The entries of a set of rows, with their multiplicity.
RECURSIVE entries_bag(_, _)
entries_bag(t, ids) ==
  IF ids = {} THEN EmptyBag
  ELSE LET id == CHOOSE i \in ids : TRUE
       IN SetToBag({t[id].entry}) (+) entries_bag(t, ids \ {id})

\* The rows recorded for a corpus under the service named 'import'.
import_rows(t, corpusid) ==
  {id \in DOMAIN t : t[id].serviceid = service_named("import") /\ t[id].corpusid = corpusid}

C14_RegisterIdempotent ==
  (registered /\ arg.first # None) =>
    rows_bag(tasks, pair_rows(tasks, arg.corpusid, arg.serviceid)) = unwrap(arg.first).rows

\* The second of two calls in a row returned, on a pair with rows.
C14_Witness ==
  /\ registered
  /\ arg.first # None
  /\ pair_rows(tasks, arg.corpusid, arg.serviceid) # {}

\* C15: the tasks table never holds two rows with the same serviceid,
\* corpusid and entry.
C15_OneRowPerTriple ==
  \A id1, id2 \in DOMAIN tasks :
    task_key(tasks[id1]) = task_key(tasks[id2]) => id1 = id2

\* C25: register_service commits or rolls back as a whole: when a call
\* that got past its DELETE ends without Ok (the manifest query, an insert
\* or the commit failed) and no other call ran between its statements, the
\* rows of the (service, corpus) pair are the rows the pair had before the
\* call.
C25_RegisterAllOrNothing ==
  [][ ( /\ registration.pc # "idle"
        /\ registration'.pc = "idle"
        /\ last'.res # "Ok"
        /\ arg.alone )
      => pair_rows(tasks', arg.corpusid, arg.serviceid) = arg.before ]_vars

(***************************************************************************)
(* SpecAdd: callers add tasks.  The entity handed to add is a new one      *)
(* without an id, or an entity an earlier add returned.  arg is the entity *)
(* of the last call, handed the entities returned so far.                  *)
(***************************************************************************)
NewTasks == {Entity(None, row) : row \in ImportTasks}

InitAdd ==
  /\ FreshStore
  /\ arg = NoArg
  /\ handed = {}

AddTask ==
  \E d \in NewTasks \cup handed, fail \in add_fail_points :
    /\ taskid_seq < MaxTaskId
    /\ add_task(d, fail)
    /\ arg' = Some(d)
    /\ handed' = handed \cup last'.ret

NextAdd == AddTask

SpecAdd == InitAdd /\ [][NextAdd]_vars

\* C19: after add(d) returned Ok the tasks table holds exactly one row with
\* d's natural key, that row has d's field values, and the entity returned
\* has an id.
C19_AddIsUpsert ==
  (last.op = "add" /\ last.res = "Ok") =>
    \A d \in arg :
      LET same == {id \in DOMAIN tasks : task_key(tasks[id]) = task_key(d.row)}
      IN /\ Cardinality(same) = 1
         /\ \A id \in same : tasks[id] = d.row
         /\ \A r \in last.ret : r.id # None

(***************************************************************************)
(* SpecReport: reports over a changing pair.  Importers insert tasks of    *)
(* service 3 on corpus 1 as queued, NoProblem or Error, workers report     *)
(* tasks as Error with a message, and readers call corpora,                *)
(* progress_report and task_report, with and without ids, while the store  *)
(* fails any one of their calls.  arg is the pair of the last report and   *)
(* the call that failed, handed the store as it was before the read.       *)
(***************************************************************************)
StoredStatuses == {TaskStatus_TODO, TaskStatus_NoProblem, TaskStatus_Error}

StoredTasks ==
  [entry : {"a"}, serviceid : {3}, corpusid : {1}, status : StoredStatuses]

ReportSelectors ==
  Selectors \cup {Selector(Some("no_problem"), None, None)}

store == <<tasks, logs, taskid_seq, corpora, rerun, registration, ventilator, sink>>

InitReport ==
  /\ tasks = <<>>
  /\ logs = EmptyBag
  /\ taskid_seq = 0
  /\ corpora = InitCorpora
  /\ rerun = NoCall
  /\ registration = NoRegistration
  /\ last = Outcome("init", "Ok", {})
  /\ ventilator = NotStarted
  /\ sink = NotReceiving
  /\ arg = NoArg
  /\ handed = store

ReportImport ==
  \E t \in StoredTasks :
    /\ taskid_seq < MaxTaskId
    /\ mark_imported(<<t>>, 0)
    /\ arg' = NoArg
    /\ handed' = store

ReportDone ==
  \E id \in DOMAIN tasks :
    /\ BagCardinality(logs) <= MaxRerunLogs
    /\ mark_done(<<Report(Some(id), TaskStatus_Error,
                          <<[severity |-> "error", category |-> "cat", what |-> "what"]>>)>>, 0)
    /\ arg' = NoArg
    /\ handed' = store

ReportProgress ==
  \E c_id \in Option({1}), s_id \in Option({3, 4}), fail \in 0..2 :
    /\ progress_report(c_id, s_id, fail)
    /\ arg' = [c_id |-> c_id, s_id |-> s_id, fail |-> fail]
    /\ handed' = store

ReportTasks ==
  \E c_id \in Option({1}), s_id \in Option({3}), sel \in ReportSelectors,
     fail \in report_fail_points :
    /\ task_report(c_id, s_id, sel, fail)
    /\ arg' = [c_id |-> c_id, s_id |-> s_id, fail |-> fail]
    /\ handed' = store

ReportCorpora ==
  \E fail \in BOOLEAN :
    /\ corpora_read(fail)
    /\ arg' = [c_id |-> None, s_id |-> None, fail |-> IF fail THEN 1 ELSE 0]
    /\ handed' = store

NextReport ==
  ReportImport \/ ReportDone \/ ReportProgress \/ ReportTasks \/ ReportCorpora

SpecReport == InitReport /\ [][NextReport]_vars

RECURSIVE sum_over(_, _)
sum_over(f, keys) ==
  IF keys = {} THEN 0
  ELSE LET k == CHOOSE x \in keys : TRUE IN f[k] + sum_over(f, keys \ {k})

\* p hundredths of a percent is 100 * count / total rounded to two decimals:
\* it lies within half a hundredth of the quotient.
is_rounded(p, count, total) ==
  /\ 2 * p * total - total <= 20000 * count
  /\ 20000 * count <= 2 * p * total + total

\* C16: in what progress_report returns, the counts of the named buckets add
\* up to "total", every "<bucket>_percent" is 100 * count / max(total, 1)
\* rounded to two decimals, and for a pair without tasks every count and
\* every percentage is 0.
C16_ProgressSums ==
  (last.op = "progress_report" /\ last.res = "Ok") =>
    \A r \in last.ret :
      LET buckets == DOMAIN r.counts \ {"total"}
          total == r.counts["total"]
      IN /\ sum_over(r.counts, buckets) = total
         /\ \A key \in buckets :
              is_rounded(r.percents[key], r.counts[key], Max(total, 1))
         /\ (arg.fail = 0 /\ pair_rows(tasks, unwrap(arg.c_id), unwrap(arg.s_id)) = {})
              => \A key \in DOMAIN r.counts : r.counts[key] = 0 /\ r.percents[key] = 0

\* A report over three tasks in two buckets: thirds are rounded.
C16_Witness ==
  /\ last.op = "progress_report" /\ last.res = "Ok"
  /\ \E r \in last.ret :
       /\ r.counts["total"] = 3
       /\ r.counts["no_problem"] = 2
       /\ r.percents["no_problem"] = 6667

\* C18: corpora, progress_report and task_report, called for a corpus and
\* a service that have ids, never panic and never change the store, and
\* when one of their store calls fails they return an empty vector or a
\* report of zeros.
C18_ReadsDegrade ==
  (\/ last.op = "corpora"
   \/ /\ last.op \in {"progress_report", "task_report"}
      /\ arg.c_id # None
      /\ arg.s_id # None) =>
    /\ last.res = "Ok"
    /\ store = handed
    /\ arg.fail # 0 =>
         \/ last.ret = {}
         \/ last.op = "progress_report" /\
              \A r \in last.ret : \A key \in DOMAIN r.counts :
                r.counts[key] = 0 /\ r.percents[key] = 0

(***************************************************************************)
(* SpecRoundTrip: from the tables setup_task_tables leaves, callers add a  *)
(* corpus (named by its path or not), record an entry of it under service  *)
(* 1 or under the import service, register service 3 on the path, claim,   *)
(* complete and ask for the progress report, in any order.  arg.stage      *)
(* follows the round trip: "fresh", "corpus", "manifest", "registered",    *)
(* "claimed", "completed", or "off" once a call ran out of that order or   *)
(* did not succeed; arg.c_id and arg.s_id are the pair of the last report. *)
(* handed holds the ids fetch_tasks returned.                              *)
(***************************************************************************)
InitRoundTrip ==
  /\ FreshStore
  /\ arg = [stage |-> "fresh", c_id |-> None, s_id |-> None]
  /\ handed = {}

\* The next stage of the round trip.
advance(from, to, ok) ==
  [arg EXCEPT !.stage = IF arg.stage = from /\ ok THEN to ELSE "off"]

TripAddCorpus ==
  \E name \in {"c1", "mock"} :
    /\ corpora.seq < MaxCorpusId
    /\ add_corpus(Entity(None, [path |-> "c1", name |-> name]), 0)
    /\ arg' = advance("fresh", "corpus", last'.res = "Ok")
    /\ UNCHANGED handed

TripImport ==
  \E serviceid \in {1, service_named("import")}, corpusid \in DOMAIN corpora.rows :
    /\ taskid_seq < MaxTaskId
    /\ mark_imported(<<[entry |-> "a", serviceid |-> serviceid, corpusid |-> corpusid,
                        status |-> TaskStatus_NoProblem]>>, 0)
    /\ arg' = advance("corpus", "manifest", serviceid = service_named("import"))
    /\ UNCHANGED handed

TripDelete ==
  /\ register_service_delete(Some(3), "c1", "none")
  /\ arg' = advance("manifest", "manifest", last'.res = "Running")
  /\ UNCHANGED handed

TripSelect ==
  /\ register_service_select(FALSE)
  /\ arg' = advance("manifest", "manifest", TRUE)
  /\ UNCHANGED handed

TripInsert ==
  /\ taskid_seq + Len(registration.entries) <= MaxTaskId
  /\ register_service_insert(0)
  /\ arg' = advance("manifest", "registered", TRUE)
  /\ UNCHANGED handed

TripFetch ==
  /\ fetch_tasks(Some(3), 1, 1, FALSE)
  /\ arg' = advance("registered", "claimed", last'.ret # {})
  /\ handed' = handed \cup ids_of(last'.ret)

TripDone ==
  \E id \in handed, status \in {TaskStatus_NoProblem, TaskStatus_Error} :
    /\ mark_done(<<Report(Some(id), status, <<>>)>>, 0)
    /\ arg' = advance("claimed", "completed", status = TaskStatus_NoProblem)
    /\ UNCHANGED handed

TripProgress ==
  \E c_id \in Option(DOMAIN corpora.rows), s_id \in {Some(service_named("import")), Some(3)} :
    /\ progress_report(c_id, s_id, 0)
    /\ arg' = [arg EXCEPT !.c_id = c_id, !.s_id = s_id]
    /\ UNCHANGED handed

NextRoundTrip ==
  \/ TripAddCorpus \/ TripImport \/ TripDelete \/ TripSelect \/ TripInsert
  \/ TripFetch \/ TripDone \/ TripProgress

SpecRoundTrip == InitRoundTrip /\ [][NextRoundTrip]_vars

\* The report of the registered pair after the round trip.
trip_reported ==
  /\ last.op = "progress_report" /\ last.res = "Ok"
  /\ arg.stage = "completed"
  /\ arg.c_id # None /\ arg.s_id = Some(3)

Requests == {"a", "b", "c"}

InitVentilator ==
  /\ InitStore
  /\ arg = NoArg
  /\ handed = {}

VentBind ==
  \E fail \in BOOLEAN :
    /\ ventilator_bind(fail)
    /\ UNCHANGED <<arg, handed>>

VentRecv ==
  \E msg \in Requests, utf8 \in BOOLEAN, fail \in BOOLEAN :
    /\ Len(ventilator.received) < MaxRequests
    /\ ventilator_recv(msg, utf8, fail)
    /\ UNCHANGED <<arg, handed>>

VentSend ==
  \E fail \in BOOLEAN :
    /\ ventilator_send(fail)
    /\ UNCHANGED <<arg, handed>>

NextVentilator == VentBind \/ VentRecv \/ VentSend

SpecVentilator == InitVentilator /\ [][NextVentilator]_vars

\* C20: receives and sends alternate, starting with a receive: there are
\* never more replies than requests, at most one request is unanswered, the
\* ventilator waits for a request only when every request has its reply,
\* and the k-th reply is the decimal k, the number of the k-th request.
C20_RequestReplyAlternate ==
  LET requests == Len(ventilator.received)
      replies == Len(ventilator.sent)
  IN /\ replies <= requests
     /\ requests <= replies + 1
     /\ ventilator.pc = "recv" => requests = replies
     /\ \A k \in 1..replies : ventilator.sent[k] = to_string(k)

\* Three requests were answered.
C20_Witness ==
  /\ Len(ventilator.sent) = 3
  /\ ventilator.pc = "recv"

\* C21: once the ventilator has replied to a work request while the store
\* held queued tasks, a batch was claimed: some task of the store carries a
\* positive status, the mark of the claim the reply hands out.
C21_ReplyClaimsTask ==
  Len(ventilator.sent) > 0 => \E id \in DOMAIN tasks : tasks[id].status > 0

(***************************************************************************)
(* SpecDispatch: both dispatch loops, the ventilator and the sink, with    *)
(* messages of any payload and every socket call failing at any point.     *)
(***************************************************************************)
SinkBind ==
  \E fail \in BOOLEAN :
    /\ sink_bind(fail)
    /\ UNCHANGED <<arg, handed>>

SinkRecv ==
  \E msg \in Requests, utf8 \in BOOLEAN, fail \in BOOLEAN :
    /\ Len(sink.received) < MaxSinkMessages
    /\ sink_recv(msg, utf8, fail)
    /\ UNCHANGED <<arg, handed>>

NextDispatch == VentBind \/ VentRecv \/ VentSend \/ SinkBind \/ SinkRecv

SpecDispatch == InitVentilator /\ [][NextDispatch]_vars

\* C27: a dispatch loop ends only when its socket cannot be bound: the
\* ventilator and the sink stop (their thread panics) only from the state
\* before the bind, never after a receive or a send.
C27_LoopsSurvive ==
  [][ /\ (ventilator'.pc = "panicked" /\ ventilator.pc # "panicked")
           => ventilator.pc = "new"
      /\ (sink'.pc = "panicked" /\ sink.pc # "panicked") => sink.pc = "new" ]_vars

\* C24: every change of a task's status follows an edge of the lifecycle: 0
\* to a positive tag by fetch_tasks, a positive tag to one of -1, -2, -3, -4
\* by mark_done, a positive tag to 0 by clear_limbo_tasks, any status to the
\* rerun tag by the first statement of mark_rerun and the rerun tag to -5 by
\* its third; mark_done changes the status of claimed tasks only.
C24_LifecycleEdges ==
  [][\A id \in DOMAIN tasks \cap DOMAIN tasks' :
       LET old == tasks[id].status
           new == tasks'[id].status
       IN old # new =>
            \/ last'.op = "fetch_tasks" /\ old = 0 /\ new > 0
            \/ last'.op = "mark_done" /\ old > 0 /\ new \in TerminalCodes
            \/ last'.op = "clear_limbo_tasks" /\ old > 0 /\ new = 0
            \/ last'.op = "mark_rerun" /\ rerun.pc = "idle" /\ new = rerun'.mark
            \/ last'.op = "mark_rerun" /\ rerun.pc = "requeue"
                 /\ old = rerun.mark /\ new = RequeuedStatus]_vars

(***************************************************************************)
(* SpecScope: reruns over a store with results.  Next to the pair (corpus  *)
(* 1, service 3) of tasks 1 and 2 the store holds task 3, of corpus 2, and *)
(* task 4, of service 4.  Workers claim tasks of service 3 and report      *)
(* queued or claimed tasks once, as Warning or as Error, with at most one  *)
(* message; the dispatcher sweeps the limbo tasks; an operator marks the   *)
(* pair for rerun with any of the four selector forms and any tag, and any *)
(* statement of the call may fail.  The rerun is the last call of a run    *)
(* and no other call runs between its statements.  arg holds the rerun:    *)
(* NoScope before it, then the pair and the selector it was given, the    *)
(* tasks and logs tables as they were when it started and the rows its     *)
(* first statement selected.                                               *)
(***************************************************************************)
ScopeTasks ==
  InitTasks
  @@ (4 :> [entry |-> "a", serviceid |-> 4, corpusid |-> 1, status |-> TaskStatus_TODO])

\* What a worker reports: a warning or an error, with the message behind it
\* or none.
ScopeReports ==
  [task_id : {Some(id) : id \in DOMAIN ScopeTasks},
   status : {TaskStatus_Warning},
   messages : {<<>>, <<[severity |-> "warning", category |-> "cat", what |-> "what"]>>}]
  \cup
  [task_id : {Some(id) : id \in DOMAIN ScopeTasks},
   status : {TaskStatus_Error},
   messages : {<<[severity |-> "error", category |-> "cat", what |-> "what"]>>,
               <<[severity |-> "error", category |-> "other", what |-> "what"]>>}]

NoScope ==
  [corpusid |-> 0, serviceid |-> 0, sel |-> EntireCorpus, tasks |-> <<>>,
   logs |-> EmptyBag, selected |-> {}]

InitScope ==
  /\ tasks = ScopeTasks
  /\ logs = EmptyBag
  /\ taskid_seq = 4
  /\ corpora = InitCorpora
  /\ rerun = NoCall
  /\ registration = NoRegistration
  /\ last = Outcome("init", "Ok", {})
  /\ ventilator = NotStarted
  /\ sink = NotReceiving
  /\ arg = NoScope
  /\ handed = {}

ScopeFetch ==
  /\ arg = NoScope
  /\ fetch_tasks(Some(3), 1, 1, FALSE)
  /\ arg' = NoScope
  /\ UNCHANGED handed

ScopeDone ==
  \E r \in ScopeReports :
    /\ arg = NoScope
    /\ tasks[unwrap(r.task_id)].status >= 0
    /\ mark_done(<<r>>, 0)
    /\ arg' = NoScope
    /\ UNCHANGED handed

ScopeClearLimbo ==
  /\ arg = NoScope
  /\ clear_limbo_tasks(FALSE)
  /\ arg' = NoScope
  /\ UNCHANGED handed

ScopeTag ==
  \E sel \in Selectors, mark_rng \in rerun_rngs, fail \in BOOLEAN :
    /\ arg = NoScope
    /\ mark_rerun_tag(Some(1), Some(3), sel, mark_rng, fail)
    /\ arg' = [corpusid |-> 1, serviceid |-> 3, sel |-> sel, tasks |-> tasks,
               logs |-> logs,
               selected |-> rerun_selected(tasks, logs, 1, 3, sel)]
    /\ UNCHANGED handed

ScopeDelete ==
  \E fail \in BOOLEAN :
    /\ mark_rerun_delete(fail)
    /\ UNCHANGED <<arg, handed>>

ScopeRequeue ==
  \E fail \in BOOLEAN :
    /\ mark_rerun_requeue(fail)
    /\ UNCHANGED <<arg, handed>>

NextScope ==
  \/ ScopeFetch
  \/ ScopeDone
  \/ ScopeClearLimbo
  \/ ScopeTag
  \/ ScopeDelete
  \/ ScopeRequeue

SpecScope == InitScope /\ [][NextScope]_vars

\* The log rows of a task, with their multiplicity.
logs_of(lg, id) ==
  LET rows == {r \in DOMAIN lg : r.taskid = id} IN [r \in rows |-> lg[r]]

\* C22: when mark_rerun(corpus, service, Some(severity), None, None)
\* returns Ok, whatever tag it drew, the tasks of the pair whose status was
\* the terminal code of the severity have status -5 and no log row, and
\* every other task of the pair has the status and the log rows it had
\* before the call.
C22_SeverityRerunExact ==
  (rerun_returned /\ last.res = "Ok" /\ arg.sel.severity # None
     /\ arg.sel.category = None) =>
    \A id \in pair_rows(arg.tasks, arg.corpusid, arg.serviceid) :
      IF arg.tasks[id].status = TaskStatus_from_key_raw(unwrap(arg.sel.severity))
      THEN tasks[id].status = RequeuedStatus /\ logs_of(logs, id) = <<>>
      ELSE /\ tasks[id].status = arg.tasks[id].status
           /\ logs_of(logs, id) = logs_of(arg.logs, id)

\* C26: log rows are append-only outside a rerun and a rerun deletes only
\* rows of the tasks its first statement selected: no step of mark_done,
\* fetch_tasks or clear_limbo_tasks (nor of mark_imported or
\* register_service) removes a log row, and a step of mark_rerun leaves
\* every log row of a task outside its selection in place, whatever tag it
\* drew.
C26_LogsAppendOnly ==
  [][\A r \in DOMAIN logs :
       (last'.op # "mark_rerun" \/ r.taskid \notin arg'.selected)
         => r \in DOMAIN logs' /\ logs'[r] >= logs[r]]_vars

\* C28: mark_rerun is confined to its (corpus, service) pair: no step of a
\* mark_rerun call, with any selector and any tag, also 0 or a status code
\* in use, and whether its statements fail or not, changes the status of a
\* task of another corpus or another service or removes a log row of such a
\* task.
C28_RerunConfined ==
  [][last'.op = "mark_rerun" =>
       \A id \in DOMAIN tasks \ pair_rows(tasks, arg'.corpusid, arg'.serviceid) :
         /\ id \in DOMAIN tasks'
         /\ tasks'[id] = tasks[id]
         /\ logs_of(logs', id) = logs_of(logs, id)]_vars

\* A rerun by severity, category and what completed under the tag -3 while
\* task 3, of corpus 2, and task 4, of service 4, had status -3 and a log
\* row that matches the selector: a task of the pair was requeued, and both
\* outside tasks keep their status and their row.
C28_Witness ==
  /\ rerun_returned
  /\ last.res = "Ok"
  /\ arg.sel = Selector(Some("error"), Some("cat"), Some("what"))
  /\ \E id \in arg.selected : tasks[id].status = RequeuedStatus
  /\ \A id \in {3, 4} :
       /\ arg.tasks[id].status = TaskStatus_Error
       /\ tasks[id].status = TaskStatus_Error
       /\ \E r \in DOMAIN logs :
            r.taskid = id /\ r.severity = "error" /\ r.category = "cat" /\ r.what = "what"
  /\ \E id \in arg.selected : arg.tasks[id].status = TaskStatus_Error

(***************************************************************************)
(* SpecRace: one rerun next to a running claim loop.  Workers claim tasks  *)
(* of service 3 and report the tasks they were handed, once each, as Error *)
(* with at most one message, before the rerun and between its statements;  *)
(* handed holds the tasks claimed and not yet reported.  An operator marks *)
(* the pair (corpus 1, service 3) for rerun, whole or by severity, under a *)
(* tag that is no status in use.  arg holds the rerun: NoRace before it,   *)
(* then the rows its first statement selected and the log rows written     *)
(* since it started.                                                       *)
(***************************************************************************)
\* The values of the generator whose tag is below every status code.
fresh_rngs == {n \in rerun_rngs : rerun_mark(n) < RequeuedStatus}

RaceReports ==
  [task_id : {Some(1), Some(2)}, status : {TaskStatus_Error},
   messages : SeqsUpTo([severity : {"error"}, category : Categories, what : Whats], 1)]

NoRace == [started |-> FALSE, selected |-> {}, written |-> EmptyBag]

InitRace ==
  /\ InitStore
  /\ arg = NoRace
  /\ handed = {}

\* The rerun has not returned.
racing == ~arg.started \/ rerun.pc # "idle"

RaceFetch ==
  /\ racing
  /\ fetch_tasks(Some(3), 1, 1, FALSE)
  /\ handed' = handed \cup ids_of(last'.ret)
  /\ UNCHANGED arg

RaceDone ==
  \E r \in RaceReports :
    /\ racing
    /\ unwrap(r.task_id) \in handed
    /\ BagCardinality(logs) + Len(r.messages) <= MaxRaceLogs
    /\ mark_done(<<r>>, 0)
    /\ arg' = IF arg.started
              THEN [arg EXCEPT !.written = @ (+) (logs' (-) logs)]
              ELSE arg
    /\ handed' = handed \ {unwrap(r.task_id)}

RaceTag ==
  \E sel \in {EntireCorpus, Selector(Some("error"), None, None)},
     mark_rng \in fresh_rngs :
    /\ ~arg.started
    /\ mark_rerun_tag(Some(1), Some(3), sel, mark_rng, FALSE)
    /\ arg' = [started |-> TRUE,
               selected |-> rerun_selected(tasks, logs, 1, 3, sel),
               written |-> EmptyBag]
    /\ UNCHANGED handed

RaceDelete ==
  /\ mark_rerun_delete(FALSE)
  /\ UNCHANGED <<arg, handed>>

RaceRequeue ==
  /\ mark_rerun_requeue(FALSE)
  /\ UNCHANGED <<arg, handed>>

NextRace == RaceFetch \/ RaceDone \/ RaceTag \/ RaceDelete \/ RaceRequeue

SpecRace == InitRace /\ [][NextRace]_vars

\* C23: with fetch_tasks and mark_done calls between the statements of a
\* mark_rerun call, no fetch_tasks call that runs before the second
\* statement returns a task the first statement selected, and when the call
\* returns Ok every task its first statement selected has status -5 and no
\* log row other than those written since the call started.
C23_RerunUnderClaims ==
  [][ /\ (fetched' /\ rerun.pc = "delete")
           => ids_of(last'.ret) \cap arg.selected = {}
      /\ (rerun.pc = "requeue" /\ rerun_returned' /\ last'.res = "Ok") =>
           \A id \in arg.selected :
             /\ tasks'[id].status = RequeuedStatus
             /\ \A r \in DOMAIN logs' :
                  r.taskid = id => logs'[r] <= CopiesIn(r, arg.written) ]_vars

=============================================================================
